---- MODULE Spec2Model ----
(***************************************************************************)
(* Referral directory and trade ledger of the nika referral system:       *)
(* ReferralService (src/src/referral/services/referral.service.ts) and    *)
(* TradeService (src/unnamed/part_003), over the User, Trade and          *)
(* Commission collections.                                                 *)
(*                                                                         *)
(* Every request is a process; a request handler is cut at its awaited    *)
(* store WRITES.  Awaited reads are evaluated in the step of the write    *)
(* that follows them: user documents are never deleted and referralCode   *)
(* and referrerId are never rewritten, so a read that found a code taken, *)
(* or walked a parent chain, returns the same answer at any later time.   *)
(***************************************************************************)
EXTENDS Integers, Sequences, FiniteSets, TLC

VARIABLES users, trades, commissions, pc, loc, result, applied

vars == <<users, trades, commissions, pc, loc, result, applied>>

(***************************************************************************)
(* Bounds of the model.                                                    *)
(***************************************************************************)
\* size of the code space the generator draws from (8 letters of 32 in the code)
NumCodes == 4
\* number of Trade rows the ledger may hold
MaxTrades == 2

Procs == {"p1", "p2"}
Codes == 1..NumCodes

(***************************************************************************)
(* Program constants.                                                      *)
(***************************************************************************)
MAX_REFERRAL_DEPTH == 3
maxAttempts == 10
DECIMAL_PLACES == 18

(***************************************************************************)
(* BigNumber values.  A finite value is m * 10^(-e), kept normalised (no  *)
(* trailing zero in m unless e = 0), which is also the canonical decimal  *)
(* string BigNumber.toString writes.  k = "inf" is +/-Infinity (sign in   *)
(* m), k = "nan" is NaN.                                                   *)
(***************************************************************************)
RECURSIVE Pow10(_)
Pow10(n) == IF n <= 0 THEN 1 ELSE 10 * Pow10(n - 1)

RECURSIVE Norm(_, _)
Norm(m, e) ==
    IF e > 0 /\ m % 10 = 0 THEN Norm(m \div 10, e - 1)
    ELSE [k |-> "fin", m |-> m, e |-> e]

NaN == [k |-> "nan", m |-> 0, e |-> 0]
Infinity == [k |-> "inf", m |-> 1, e |-> 0]
NegInfinity == [k |-> "inf", m |-> -1, e |-> 0]
Zero == Norm(0, 0)

Sign(a) == IF a.m > 0 THEN 1 ELSE IF a.m < 0 THEN -1 ELSE 0

isNaN(a) == a.k = "nan"
isZero(a) == a.k = "fin" /\ a.m = 0

\* BigNumber.multipliedBy: the exact product; DECIMAL_PLACES is not applied
multipliedBy(a, b) ==
    IF isNaN(a) \/ isNaN(b) THEN NaN
    ELSE IF a.k = "inf" \/ b.k = "inf"
         THEN IF Sign(a) * Sign(b) = 0 THEN NaN
              ELSE IF Sign(a) * Sign(b) > 0 THEN Infinity ELSE NegInfinity
    ELSE Norm(a.m * b.m, a.e + b.e)

\* BigNumber.plus (and the store's decimal $inc / $sum)
plus(a, b) ==
    IF isNaN(a) \/ isNaN(b) THEN NaN
    ELSE IF a.k = "inf" /\ b.k = "inf"
         THEN IF a.m = b.m THEN a ELSE NaN
    ELSE IF a.k = "inf" THEN a
    ELSE IF b.k = "inf" THEN b
    ELSE IF a.m = 0 THEN b
    ELSE IF b.m = 0 THEN a
    ELSE LET e == IF a.e >= b.e THEN a.e ELSE b.e
         IN  Norm(a.m * Pow10(e - a.e) + b.m * Pow10(e - b.e), e)

RECURSIVE NumDigits(_)
NumDigits(n) == IF n < 10 THEN 1 ELSE 1 + NumDigits(n \div 10)

Abs(n) == IF n < 0 THEN -n ELSE n

\* |a| <= |b| for finite non-zero values: by the position of the leading
\* digit, then by the digits
MagnitudeLeq(a, b) ==
    LET la == NumDigits(Abs(a.m)) - a.e
        lb == NumDigits(Abs(b.m)) - b.e
        e == IF a.e >= b.e THEN a.e ELSE b.e
    IN  IF la # lb THEN la < lb
        ELSE Abs(a.m) * Pow10(e - a.e) <= Abs(b.m) * Pow10(e - b.e)

\* a <= b; any comparison with NaN is false
isLessThanOrEqualTo(a, b) ==
    IF isNaN(a) \/ isNaN(b) THEN FALSE
    ELSE IF a.k = "inf" THEN (a.m < 0 \/ (b.k = "inf" /\ b.m > 0))
    ELSE IF b.k = "inf" THEN b.m > 0
    ELSE IF a.m <= 0 /\ b.m >= 0 THEN TRUE
    ELSE IF a.m >= 0 /\ b.m <= 0 THEN FALSE
    ELSE IF a.m > 0 THEN MagnitudeLeq(a, b)
    ELSE MagnitudeLeq(b, a)

isGreaterThan(a, b) ==
    IF isNaN(a) \/ isNaN(b) THEN FALSE ELSE ~isLessThanOrEqualTo(a, b)

\* rounding of a value to DECIMAL_PLACES fractional digits, ROUND_DOWN
\* (toward zero): what BigNumber applies to quotients
RoundDown(a) ==
    IF a.k # "fin" \/ a.e <= DECIMAL_PLACES THEN a
    ELSE LET p == Pow10(a.e - DECIMAL_PLACES)
             q == IF a.m >= 0 THEN a.m \div p ELSE -((-a.m) \div p)
         IN  Norm(q, DECIMAL_PLACES)

D(m, e) == Norm(m, e)

(***************************************************************************)
(* Constants of src/unnamed/part_005.                                      *)
(***************************************************************************)
COMMISSION_RATES == [LEVEL_1 |-> D(30, 2), LEVEL_2 |-> D(3, 2), LEVEL_3 |-> D(2, 2)]
FEE_DISTRIBUTION == [CASHBACK_RATE |-> D(10, 2), TREASURY_RATE |-> D(55, 2)]
FEE_TIERS == [BASE |-> D(1, 2), REDUCED |-> D(5, 3)]

(***************************************************************************)
(* User documents.  The id of a user is its position in users; 0 is the   *)
(* null reference.                                                         *)
(***************************************************************************)
\* an absent (undefined) level rate of the structure handed to the resolver
NoRate == [k |-> "none", m |-> 0, e |-> 0]

\* customCommissionStructure: null
NullCS == [type |-> "NONE", level1Rate |-> "undefined", level2Rate |-> "undefined",
           level3Rate |-> "undefined", feesWaived |-> FALSE, commissionsWaived |-> FALSE]

\* a stored structure; the level rates are strings, "undefined" when absent
CS(type, r1, r2, r3, fw, cw) ==
    [type |-> type, level1Rate |-> r1, level2Rate |-> r2, level3Rate |-> r3,
     feesWaived |-> fw, commissionsWaived |-> cw]

\* new this.userModel({referralCode, referrerId, directReferrals: [], referralDepth})
\* with the schema defaults of the other fields
NewUser(referralCode, referrerId, referralDepth) ==
    [referralCode |-> referralCode,
     referrerId |-> referrerId,
     directReferrals |-> <<>>,
     referralDepth |-> referralDepth,
     feeTier |-> "BASE",
     customCommissionStructure |-> NullCS,
     totalXpEarned |-> Zero,
     totalCommissionEarned |-> Zero,
     totalCashbackEarned |-> Zero]

UserIds == 1..Len(users)

\* userModel.findById(id): the id if the document exists, else 0 (null)
findById(id) == IF id \in UserIds THEN id ELSE 0

\* userModel.findOne({referralCode}): the owner's id, 0 (null) if none
findOneByCode(referralCode) ==
    IF \E u \in UserIds : users[u].referralCode = referralCode
    THEN CHOOSE u \in UserIds : users[u].referralCode = referralCode
    ELSE 0

MutUniqueIndexAccepts(referralCode) == TRUE

\* the unique index on User.referralCode: an insert passes iff no document
\* holds the code
UniqueIndexAccepts(referralCode) ==
    \A u \in UserIds : users[u].referralCode # referralCode

(***************************************************************************)
(* Per-request local state.                                                *)
(***************************************************************************)
EmptyDist == [traderId |-> 0, totalFee |-> Zero, cashback |-> Zero,
              treasury |-> Zero, commissions |-> <<>>]

\* what a read operation has computed so far, or returned
NoOut == [op |-> "none"]

NoLoc == [code |-> 0, referrer |-> 0, depth |-> 0, newId |-> 0,
          trade |-> 0, dist |-> EmptyDist, idx |-> 0, out |-> NoOut]

\* The code generator draws at random.  Codes are opaque, so the draws are
\* taken up to renaming: any code some user holds, or one of the first
\* free codes (one per concurrent request, so that two requests may draw
\* the same free code or different ones).
TakenCodes == {users[u].referralCode : u \in UserIds}
FreeCodes == Codes \ TakenCodes
FreshDraws ==
    {c \in FreeCodes : Cardinality({x \in FreeCodes : x < c}) < Cardinality(Procs)}
Draws == TakenCodes \union FreshDraws

\* how many times in a row the generator repeats its first draw
RepeatCounts == {0, 1, maxAttempts - 1, maxAttempts}

\* the sequences of draws a request may see: k draws of a code some user
\* holds (if there is one), then draws of another code
CandidateRuns ==
    { [i \in 1..maxAttempts |-> IF i <= k THEN d ELSE c] :
        k \in RepeatCounts,
        d \in (IF TakenCodes = {} THEN FreshDraws
               ELSE {CHOOSE x \in TakenCodes : TRUE}),
        c \in Draws }

Return(p, r) ==
    /\ pc' = [pc EXCEPT ![p] = "idle"]
    /\ loc' = [loc EXCEPT ![p] = NoLoc]
    /\ result' = [result EXCEPT ![p] = r]

(***************************************************************************)
(* generateReferralCode                                                    *)
(***************************************************************************)
\* the do-while loop: draw, look the code up, stop at the first free one,
\* count the collisions
RECURSIVE GenerateLoop(_, _, _)
GenerateLoop(cands, i, attempts) ==
    LET referralCode == cands[i]
        exists == findOneByCode(referralCode) # 0
    IN  IF ~exists THEN [attempts |-> attempts, referralCode |-> referralCode]
        ELSE IF attempts + 1 < maxAttempts
             THEN GenerateLoop(cands, i + 1, attempts + 1)
             ELSE [attempts |-> attempts + 1, referralCode |-> referralCode]

\* lines 30-43: the loop and the ConflictException
GenerateReferralCode(p, cands) ==
    /\ pc[p] = "idle"
    /\ LET r == GenerateLoop(cands, 1, 0)
       IN  IF r.attempts >= maxAttempts
           THEN /\ Return(p, "Conflict")
                /\ UNCHANGED <<users, trades, commissions, applied>>
           ELSE /\ pc' = [pc EXCEPT ![p] = "gen_save"]
                /\ loc' = [loc EXCEPT ![p] = [NoLoc EXCEPT !.code = r.referralCode]]
                /\ result' = [result EXCEPT ![p] = "none"]
                /\ UNCHANGED <<users, trades, commissions, applied>>

\* lines 45-51: user.save(); a duplicate key error is not caught
GenerateSave(p) ==
    /\ pc[p] = "gen_save"
    /\ IF UniqueIndexAccepts(loc[p].code)
       THEN /\ users' = Append(users, NewUser(loc[p].code, 0, 0))
            /\ Return(p, "OK")
       ELSE /\ users' = users
            /\ Return(p, "DuplicateKey")
    /\ UNCHANGED <<trades, commissions, applied>>

(***************************************************************************)
(* registerWithReferral                                                    *)
(***************************************************************************)
RECURSIVE DepthWalk(_, _)
DepthWalk(currentUser, depth) ==
    IF currentUser # 0 /\ users[currentUser].referrerId # 0
    THEN DepthWalk(findById(users[currentUser].referrerId), depth + 1)
    ELSE depth

calculateReferralDepth(userId) == DepthWalk(findById(userId), 0)

MutDepthOfNewUser(referrerDepth) == referrerDepth

\* line 75: referralDepth: referrerDepth + 1
DepthOfNewUser(referrerDepth) == referrerDepth + 1

MutDepthLimitReached(referrerDepth) == referrerDepth > MAX_REFERRAL_DEPTH

\* line 61: if (referrerDepth >= MAX_REFERRAL_DEPTH)
DepthLimitReached(referrerDepth) == referrerDepth >= MAX_REFERRAL_DEPTH

\* lines 55-63: the lookup of the referrer and the depth check
RegisterWithReferral(p, referralCode) ==
    /\ pc[p] = "idle"
    /\ LET referrer == findOneByCode(referralCode)
       IN  IF referrer = 0
           THEN Return(p, "NotFound")
           ELSE LET referrerDepth == calculateReferralDepth(referrer)
                IN  IF DepthLimitReached(referrerDepth)
                    THEN Return(p, "InvalidInput")
                    ELSE /\ pc' = [pc EXCEPT ![p] = "reg_save"]
                         /\ loc' = [loc EXCEPT ![p] =
                                [NoLoc EXCEPT !.referrer = referrer,
                                              !.depth = referrerDepth]]
                         /\ result' = [result EXCEPT ![p] = "none"]
    /\ UNCHANGED <<users, trades, commissions, applied>>

\* lines 67-97: the for loop around user.save(); a duplicate key on
\* referralCode continues with the next draw
RECURSIVE RegisterLoop(_, _)
RegisterLoop(cands, attempt) ==
    IF attempt >= maxAttempts THEN [saved |-> FALSE, referralCode |-> 0]
    ELSE LET newReferralCode == cands[attempt + 1]
         IN  IF UniqueIndexAccepts(newReferralCode)
             THEN [saved |-> TRUE, referralCode |-> newReferralCode]
             ELSE RegisterLoop(cands, attempt + 1)

\* lines 66-78 and 99: the insert of the new user, or the ConflictException
RegisterSave(p, cands) ==
    /\ pc[p] = "reg_save"
    /\ LET r == RegisterLoop(cands, 0)
       IN  IF r.saved
           THEN /\ users' = Append(users,
                        NewUser(r.referralCode, loc[p].referrer,
                                DepthOfNewUser(loc[p].depth)))
                /\ pc' = [pc EXCEPT ![p] = "reg_push"]
                /\ loc' = [loc EXCEPT ![p].newId = Len(users) + 1]
                /\ result' = result
           ELSE /\ users' = users
                /\ Return(p, "Conflict")
    /\ UNCHANGED <<trades, commissions, applied>>

MutPushChild(directReferrals, id) == <<id>>

\* line 83: $push: { directReferrals: savedUser._id }, applied by the store
\* to the list it holds
PushChild(directReferrals, id) == Append(directReferrals, id)

\* lines 81-86: the atomic $push on the referrer's directReferrals
RegisterPush(p) ==
    /\ pc[p] = "reg_push"
    /\ users' = [users EXCEPT ![loc[p].referrer].directReferrals =
                    PushChild(@, loc[p].newId)]
    /\ Return(p, "OK")
    /\ UNCHANGED <<trades, commissions, applied>>

(***************************************************************************)
(* Strings that carry numbers: the volume of a trade request and the      *)
(* level rates stored in a custom commission structure.                    *)
(***************************************************************************)
\* new BigNumber(str), on the request strings of the model; a string that
\* is no number gives NaN
BigNumberOf(str) ==
    CASE str = "10000" -> D(10000, 0)
      [] str = "5000" -> D(5000, 0)
      [] str = "1000" -> D(1000, 0)
      [] str = "0.000000000000000001" -> D(1, 18)
      [] str = "0" -> D(0, 0)
      [] str = "-100" -> D(-100, 0)
      [] str = "Infinity" -> Infinity
      [] str = "-Infinity" -> NegInfinity
      [] str = "0.9" -> D(9, 1)
      [] str = "0.40" -> D(40, 2)
      [] str = "0.01" -> D(1, 2)
      [] OTHER -> NaN

\* JavaScript truthiness of an optional string field
Truthy(str) == str # "undefined" /\ str # ""

\* BigNumber.dividedBy for a divisor that is a power of ten (the only
\* divisor the ledger uses is FEE_TIERS.BASE); quotients are rounded to
\* DECIMAL_PLACES
dividedBy(a, b) ==
    IF isNaN(a) \/ isNaN(b) \/ b.k # "fin" \/ b.m # 1 THEN NaN
    ELSE IF a.k = "inf" THEN a
    ELSE RoundDown(Norm(a.m * Pow10(b.e), a.e))

MutDecimal128FromString(a) == plus(a, a)

\* Decimal128.fromString(x.toString()): exact for every value of at most
\* 34 significant digits, which all values of the model are
Decimal128FromString(a) == a

(***************************************************************************)
(* getReferralChain                                                        *)
(***************************************************************************)
MutWithinChainDepth(level) == level < MAX_REFERRAL_DEPTH

\* line 107: level <= MAX_REFERRAL_DEPTH
WithinChainDepth(level) == level <= MAX_REFERRAL_DEPTH

MutNextLevel(level) == level + 2

\* line 118: level++
NextLevel(level) == level + 1

RECURSIVE ChainWalk(_, _, _)
ChainWalk(currentUser, level, chain) ==
    IF currentUser # 0 /\ users[currentUser].referrerId # 0
       /\ WithinChainDepth(level)
    THEN LET referrer == findById(users[currentUser].referrerId)
         IN  IF referrer = 0 THEN chain
             ELSE ChainWalk(referrer, NextLevel(level),
                     Append(chain, [userId |-> referrer, level |-> level,
                                    referralCode |-> users[referrer].referralCode]))
    ELSE chain

getReferralChain(userId) == ChainWalk(findById(userId), 1, <<>>)

(***************************************************************************)
(* getCommissionRateForLevel                                               *)
(***************************************************************************)
\* part_003 lines 151-166: the stored structure as handed to the resolver;
\* a stored level rate becomes a BigNumber when the string is truthy
toCustomStructure(stored) ==
    IF stored.type = "NONE"
    THEN [type |-> "NONE", level1Rate |-> NoRate, level2Rate |-> NoRate,
          level3Rate |-> NoRate, feesWaived |-> FALSE, commissionsWaived |-> FALSE]
    ELSE [type |-> stored.type,
          level1Rate |-> IF Truthy(stored.level1Rate)
                         THEN BigNumberOf(stored.level1Rate) ELSE NoRate,
          level2Rate |-> IF Truthy(stored.level2Rate)
                         THEN BigNumberOf(stored.level2Rate) ELSE NoRate,
          level3Rate |-> IF Truthy(stored.level3Rate)
                         THEN BigNumberOf(stored.level3Rate) ELSE NoRate,
          feesWaived |-> stored.feesWaived,
          commissionsWaived |-> stored.commissionsWaived]

MutStandardRate(level) ==
    CASE level = 1 -> COMMISSION_RATES.LEVEL_1
      [] level = 2 -> COMMISSION_RATES.LEVEL_3
      [] level = 3 -> COMMISSION_RATES.LEVEL_2
      [] OTHER -> Zero

\* lines 327-336
StandardRate(level) ==
    CASE level = 1 -> COMMISSION_RATES.LEVEL_1
      [] level = 2 -> COMMISSION_RATES.LEVEL_2
      [] level = 3 -> COMMISSION_RATES.LEVEL_3
      [] OTHER -> Zero

MutCommissionsWaived(customStructure) == FALSE

\* line 309: customStructure?.commissionsWaived
CommissionsWaived(customStructure) ==
    customStructure.type # "NONE" /\ customStructure.commissionsWaived

getCommissionRateForLevel(level, customStructure) ==
    IF CommissionsWaived(customStructure)
    THEN Zero
    ELSE IF customStructure.type = "KOL_DIRECT"
    THEN (IF level = 1 THEN D(50, 2) ELSE Zero)
    ELSE IF customStructure.type = "WAIVED"
    THEN Zero
    ELSE IF customStructure.type = "KOL_CUSTOM" /\ level = 1
            /\ customStructure.level1Rate # NoRate
    THEN customStructure.level1Rate
    ELSE IF customStructure.type = "KOL_CUSTOM" /\ level = 2
            /\ customStructure.level2Rate # NoRate
    THEN customStructure.level2Rate
    ELSE IF customStructure.type = "KOL_CUSTOM" /\ level = 3
            /\ customStructure.level3Rate # NoRate
    THEN customStructure.level3Rate
    ELSE StandardRate(level)

(***************************************************************************)
(* calculateFeeDistribution / calculateCommissionBreakdown                 *)
(***************************************************************************)
getFeeRateForTier(tier) ==
    IF tier = "REDUCED" THEN FEE_TIERS.REDUCED ELSE FEE_TIERS.BASE

\* the rate of the ancestor an entry of the referral chain names
RateOfReferrer(referrer) ==
    getCommissionRateForLevel(referrer.level,
        toCustomStructure(users[referrer.userId].customCommissionStructure))

MutEmitsCommission(rate) == ~isNaN(rate)

\* part_003 line 169: if (rate.isGreaterThan(0))
EmitsCommission(rate) == isGreaterThan(rate, Zero)

RECURSIVE BreakdownFrom(_, _, _, _)
BreakdownFrom(referralChain, i, totalFee, acc) ==
    IF i > Len(referralChain) THEN acc
    ELSE LET referrer == referralChain[i]
         IN  IF findById(referrer.userId) = 0
             THEN BreakdownFrom(referralChain, i + 1, totalFee, acc)
             ELSE LET rate == RateOfReferrer(referrer)
                  IN  IF EmitsCommission(rate)
                      THEN BreakdownFrom(referralChain, i + 1, totalFee,
                              Append(acc,
                                  [level |-> referrer.level,
                                   userId |-> referrer.userId,
                                   amount |-> multipliedBy(totalFee, rate),
                                   rate |-> rate]))
                      ELSE BreakdownFrom(referralChain, i + 1, totalFee, acc)

calculateCommissionBreakdown(traderId, totalFee) ==
    BreakdownFrom(getReferralChain(traderId), 1, totalFee, <<>>)

MutTreasuryOf(totalFee) == multipliedBy(totalFee, D(65, 2))

\* part_003 line 121
TreasuryOf(totalFee) == multipliedBy(totalFee, FEE_DISTRIBUTION.TREASURY_RATE)

MutFeesWaived(user) == FALSE

\* part_003 line 97: user.customCommissionStructure?.feesWaived ?? false
FeesWaived(user) ==
    /\ users[user].customCommissionStructure.type # "NONE"
    /\ users[user].customCommissionStructure.feesWaived

calculateFeeDistribution(user, volume) ==
    LET isFeesWaived == FeesWaived(user)
        totalFee == IF isFeesWaived THEN Zero
                    ELSE multipliedBy(volume, getFeeRateForTier(users[user].feeTier))
    IN  IF isZero(totalFee)
        THEN [traderId |-> user, totalFee |-> totalFee, cashback |-> Zero,
              treasury |-> Zero, commissions |-> <<>>]
        ELSE [traderId |-> user, totalFee |-> totalFee,
              cashback |-> multipliedBy(totalFee, FEE_DISTRIBUTION.CASHBACK_RATE),
              treasury |-> TreasuryOf(totalFee),
              commissions |-> calculateCommissionBreakdown(user, totalFee)]

(***************************************************************************)
(* processTrade                                                            *)
(***************************************************************************)
\* a request's userId is a well-formed ObjectId (a positive number here)
\* or a malformed string (-1)
isValidObjectId(id) == id > 0

RECURSIVE SumAmounts(_, _)
SumAmounts(cs, i) ==
    IF i > Len(cs) THEN Zero ELSE plus(cs[i].amount, SumAmounts(cs, i + 1))

\* part_003 line 43
VolumeRejected(volumeBN) == isNaN(volumeBN) \/ isLessThanOrEqualTo(volumeBN, Zero)

NoProgress == [rows |-> FALSE, paid |-> 0, cashback |-> FALSE, returned |-> FALSE]

MutDistributedAtCreate == TRUE

\* line 68: commissionsDistributed: false (and no distributedAt)
DistributedAtCreate == FALSE

\* lines 32-71: validation, the fee distribution and the first trade.save()
ProcessTrade(p, userId, volume) ==
    /\ pc[p] = "idle"
    /\ IF ~isValidObjectId(userId)
       THEN /\ Return(p, "InvalidInput")
            /\ UNCHANGED <<trades, applied>>
       ELSE IF findById(userId) = 0
       THEN /\ Return(p, "NotFound")
            /\ UNCHANGED <<trades, applied>>
       ELSE IF VolumeRejected(BigNumberOf(volume))
       THEN /\ Return(p, "InvalidInput")
            /\ UNCHANGED <<trades, applied>>
       ELSE LET user == findById(userId)
                feeDistribution == calculateFeeDistribution(user, BigNumberOf(volume))
            IN  /\ Len(trades) < MaxTrades
                /\ trades' = Append(trades,
                      [userId |-> user,
                       volume |-> volume,
                       feeRate |-> getFeeRateForTier(users[user].feeTier),
                       totalFee |-> feeDistribution.totalFee,
                       cashbackAmount |-> feeDistribution.cashback,
                       treasuryAmount |-> feeDistribution.treasury,
                       totalCommissions |-> SumAmounts(feeDistribution.commissions, 1),
                       commissionsDistributed |-> DistributedAtCreate,
                       distributedAt |-> FALSE])
                /\ applied' = Append(applied, NoProgress)
                /\ pc' = [pc EXCEPT ![p] =
                            IF feeDistribution.commissions = <<>>
                            THEN "mark" ELSE "distribute"]
                /\ loc' = [loc EXCEPT ![p] =
                            [NoLoc EXCEPT !.trade = Len(trades) + 1,
                                          !.dist = feeDistribution]]
                /\ result' = [result EXCEPT ![p] = "none"]
    /\ UNCHANGED <<users, commissions>>

\* the createdAt stamp of the rows of one insertMany: the store's clock,
\* which ticks with every batch of rows
Now == Cardinality({commissions[i].tradeId : i \in 1..Len(commissions)}) + 1

MutIsClaimedAtInsert == TRUE

\* line 200: isClaimed: false
IsClaimedAtInsert == FALSE

\* lines 189-201: one Commission document per entry of the distribution
CommissionDocs(tradeId, sourceUserId, distribution) ==
    [i \in 1..Len(distribution.commissions) |->
        [userId |-> distribution.commissions[i].userId,
         sourceUserId |-> sourceUserId,
         tradeId |-> tradeId,
         level |-> distribution.commissions[i].level,
         amount |-> distribution.commissions[i].amount,
         rate |-> distribution.commissions[i].rate,
         tradeVolume |-> dividedBy(distribution.totalFee, getFeeRateForTier("BASE")),
         tradeFee |-> distribution.totalFee,
         isClaimed |-> IsClaimedAtInsert,
         createdAt |-> Now]]

\* lines 203-205: commissionModel.insertMany
InsertCommissions(p) ==
    /\ pc[p] = "distribute"
    /\ commissions' = commissions \o
          CommissionDocs(loc[p].trade, loc[p].dist.traderId, loc[p].dist)
    /\ applied' = [applied EXCEPT ![loc[p].trade].rows = TRUE]
    /\ pc' = [pc EXCEPT ![p] = "inc"]
    /\ loc' = [loc EXCEPT ![p].idx = 1]
    /\ UNCHANGED <<users, trades, result>>

MutInc(old, amount) == amount

\* the store's atomic $inc of one field
Inc(old, amount) == plus(old, amount)

MutXpAmount(amount) == Zero

\* lines 216 and 235: totalXpEarned is incremented by the same amount as
\* the commission (or cashback) total, in the same updateOne
XpAmount(amount) == amount

\* lines 209-220: one updateOne per commission, $inc of both totals
IncrementReferrer(p) ==
    /\ pc[p] = "inc"
    /\ LET comm == loc[p].dist.commissions[loc[p].idx]
           amount == Decimal128FromString(comm.amount)
       IN  users' = [users EXCEPT
                ![comm.userId].totalCommissionEarned = Inc(@, amount),
                ![comm.userId].totalXpEarned = Inc(@, XpAmount(amount))]
    /\ applied' = [applied EXCEPT ![loc[p].trade].paid = @ + 1]
    /\ IF loc[p].idx < Len(loc[p].dist.commissions)
       THEN /\ loc' = [loc EXCEPT ![p].idx = @ + 1]
            /\ pc' = pc
       ELSE /\ loc' = loc
            /\ pc' = [pc EXCEPT ![p] = "mark"]
    /\ UNCHANGED <<trades, commissions, result>>

MutDistributed(trade) == trade

\* lines 81-82: trade.commissionsDistributed = true; trade.distributedAt =
\* new Date() (distributedAt: whether the stamp is set)
Distributed(trade) ==
    [trade EXCEPT !.commissionsDistributed = TRUE, !.distributedAt = TRUE]

\* lines 80-83: the flag and distributedAt, in one trade.save()
MarkDistributed(p) ==
    /\ pc[p] = "mark"
    /\ trades' = [trades EXCEPT ![loc[p].trade] = Distributed(@)]
    /\ pc' = [pc EXCEPT ![p] = "stats"]
    /\ UNCHANGED <<users, commissions, loc, result, applied>>

MutCashbackAmount(distribution) == multipliedBy(distribution.cashback, D(-1, 0))

\* line 229: Decimal128.fromString(distribution.cashback.toString())
CashbackAmount(distribution) == Decimal128FromString(distribution.cashback)

\* lines 86-88 and 225-239: updateUserStats, then the return
UpdateUserStats(p) ==
    /\ pc[p] = "stats"
    /\ LET cashbackAmount == CashbackAmount(loc[p].dist)
           userId == loc[p].dist.traderId
       IN  users' = [users EXCEPT
                ![userId].totalCashbackEarned = Inc(@, cashbackAmount),
                ![userId].totalXpEarned = Inc(@, XpAmount(cashbackAmount))]
    /\ applied' = [applied EXCEPT ![loc[p].trade].cashback = TRUE,
                                  ![loc[p].trade].returned = TRUE]
    /\ Return(p, "OK")
    /\ UNCHANGED <<trades, commissions>>

(***************************************************************************)
(* A request that stops between two awaited writes (process crash, store  *)
(* failure): the writes done so far stay.                                  *)
(***************************************************************************)
Crash(p) ==
    /\ pc[p] # "idle"
    /\ Return(p, "Crashed")
    /\ UNCHANGED <<users, trades, commissions, applied>>

(***************************************************************************)
(* The referral directory: an empty store, concurrent generate/register.  *)
(***************************************************************************)
Init ==
    /\ users = <<>>
    /\ trades = <<>>
    /\ commissions = <<>>
    /\ applied = <<>>
    /\ pc = [p \in Procs |-> "idle"]
    /\ loc = [p \in Procs |-> NoLoc]
    /\ result = [p \in Procs |-> "none"]

Next ==
    \/ \E p \in Procs, cands \in CandidateRuns : GenerateReferralCode(p, cands)
    \/ \E p \in Procs : GenerateSave(p)
    \/ \E p \in Procs, c \in Codes : RegisterWithReferral(p, c)
    \/ \E p \in Procs, cands \in CandidateRuns : RegisterSave(p, cands)
    \/ \E p \in Procs : RegisterPush(p)
    \/ \E p \in Procs : Crash(p)

Spec == Init /\ [][Next]_vars

(***************************************************************************)
(* The trade ledger over a populated directory.  No handler of the        *)
(* service writes feeTier or customCommissionStructure: they are set in   *)
(* the store, so a ledger run starts from a directory that holds them.    *)
(***************************************************************************)
SeedUser(referralCode, referrerId, children, referralDepth, feeTier, cs) ==
    [NewUser(referralCode, referrerId, referralDepth) EXCEPT
        !.directReferrals = children,
        !.feeTier = feeTier,
        !.customCommissionStructure = cs]

\* a chain 1 <- 2 <- .. <- n of referrals (user 1 is the root)
Chain(n, tiers, cs) ==
    [i \in 1..n |->
        SeedUser(i, i - 1, IF i < n THEN <<i + 1>> ELSE <<>>, i - 1, tiers[i], cs[i])]

KolDirect == CS("KOL_DIRECT", "undefined", "undefined", "undefined", FALSE, FALSE)
KolDirectWaived == CS("KOL_DIRECT", "undefined", "undefined", "undefined", FALSE, TRUE)
KolCustomHigh == CS("KOL_CUSTOM", "0.9", "undefined", "0.40", FALSE, FALSE)
KolCustomLow == CS("KOL_CUSTOM", "0", "0.01", "abc", FALSE, FALSE)
WaivedAll == CS("WAIVED", "undefined", "undefined", "undefined", TRUE, FALSE)

AncestorStructures ==
    {NullCS, KolDirect, KolDirectWaived, KolCustomHigh, KolCustomLow, WaivedAll}
KolFeesWaived == CS("KOL_DIRECT", "undefined", "undefined", "undefined", TRUE, FALSE)
TraderStructures == {NullCS, WaivedAll, KolFeesWaived}
Tiers == {"BASE", "REDUCED"}

IdleProcs ==
    /\ pc = [p \in Procs |-> "idle"]
    /\ loc = [p \in Procs |-> NoLoc]
    /\ result = [p \in Procs |-> "none"]

EmptyLedger ==
    /\ trades = <<>>
    /\ commissions = <<>>
    /\ applied = <<>>

\* concurrent trades, crashes included
InitTrade ==
    /\ \E c1 \in {NullCS, KolDirect} :
          users = Chain(3, <<"BASE", "BASE", "REDUCED">>, <<c1, NullCS, NullCS>>)
    /\ EmptyLedger
    /\ IdleProcs

TradeVolumes == {"1000", "abc"}
TraderIds == {-1} \union (1..(Len(users) + 1))

NextTrade ==
    \/ \E p \in Procs, userId \in TraderIds, volume \in TradeVolumes :
          ProcessTrade(p, userId, volume)
    \/ \E p \in Procs : InsertCommissions(p)
    \/ \E p \in Procs : IncrementReferrer(p)
    \/ \E p \in Procs : MarkDistributed(p)
    \/ \E p \in Procs : UpdateUserStats(p)
    \/ \E p \in Procs : Crash(p)

SpecTrade == InitTrade /\ [][NextTrade]_vars

\* one trade at a time, over every fee tier, volume and custom structure
InitFee ==
    /\ \E t \in Tiers, c1 \in AncestorStructures, c2 \in AncestorStructures,
          c3 \in AncestorStructures, c4 \in TraderStructures :
          users = Chain(4, <<t, t, t, t>>, <<c1, c2, c3, c4>>)
    /\ EmptyLedger
    /\ IdleProcs

FeeVolumes == {"10000", "5000", "0.000000000000000001", "Infinity", "0", "-100", "abc"}

NextFee ==
    \/ \E userId \in TraderIds, volume \in FeeVolumes :
          /\ trades = <<>>
          /\ ProcessTrade("p1", userId, volume)
    \/ InsertCommissions("p1")
    \/ IncrementReferrer("p1")
    \/ MarkDistributed("p1")
    \/ UpdateUserStats("p1")

SpecFee == InitFee /\ [][NextFee]_vars

(***************************************************************************)
(* The referral tree, read off the parent pointers.                        *)
(***************************************************************************)
RECURSIVE AncestorAt(_, _)
AncestorAt(u, k) ==
    IF k = 0 THEN u
    ELSE LET a == AncestorAt(u, k - 1)
         IN  IF a = 0 THEN 0 ELSE users[a].referrerId

NumAncestors(u) == Cardinality({k \in 1..Len(users) : AncestorAt(u, k) # 0})

C5_UniqueCodes ==
    /\ \A u \in UserIds, v \in UserIds :
          u # v => users[u].referralCode # users[v].referralCode
    /\ \A u \in UserIds :
          users[u].referrerId # 0 =>
              users[u].referralCode # users[users[u].referrerId].referralCode

\* two requests raced for one code, and a user was registered under another
C5_Witness ==
    /\ \E p \in Procs : result[p] = "DuplicateKey"
    /\ \E u \in UserIds : users[u].referrerId # 0

(***************************************************************************)
(* C8: registerUnder(code) fails with NotFound when no user owns the      *)
(* code and with InvalidInput when the owner has 3 or more ancestors; in  *)
(* both cases no user is created and no user changes.                      *)
(***************************************************************************)
C8_RegisterFailures ==
    [][\A p \in Procs, c \in Codes :
          RegisterWithReferral(p, c) =>
              /\ (\A u \in UserIds : users[u].referralCode # c) =>
                    /\ result'[p] = "NotFound"
                    /\ pc'[p] = "idle"
                    /\ users' = users
              /\ (\E u \in UserIds : /\ users[u].referralCode = c
                                     /\ NumAncestors(u) >= 3) =>
                    /\ result'[p] = "InvalidInput"
                    /\ pc'[p] = "idle"
                    /\ users' = users]_vars

\* one request was refused for an unknown code, another at the depth limit
C8_Witness ==
    \E p \in Procs, q \in Procs :
        /\ result[p] = "NotFound"
        /\ result[q] = "InvalidInput"
        /\ \E u \in UserIds : NumAncestors(u) = 3

(***************************************************************************)
(* C10: generateCode tries at most 10 candidates; if all 10 collide it    *)
(* fails with Conflict and creates no user; if some candidate within the  *)
(* first 10 is free it creates exactly one root user with that code, no   *)
(* parent, referralDepth 0 and no children.                                *)
(***************************************************************************)
C10_GenerateOutcome ==
    [][\A p \in Procs :
          /\ \A cands \in CandidateRuns :
                GenerateReferralCode(p, cands) =>
                    IF \A i \in 1..maxAttempts : cands[i] \in TakenCodes
                    THEN /\ result'[p] = "Conflict"
                         /\ pc'[p] = "idle"
                         /\ users' = users
                    ELSE /\ pc'[p] = "gen_save"
                         /\ loc'[p].code \in FreeCodes
                         /\ \E i \in 1..maxAttempts : loc'[p].code = cands[i]
          /\ GenerateSave(p) =>
                /\ result'[p] = "OK"
                /\ users' = Append(users, NewUser(loc[p].code, 0, 0))]_vars

(***************************************************************************)
(* The distribution a trade in flight was computed with.                   *)
(***************************************************************************)
InFlight(p) == pc[p] \in {"distribute", "inc", "mark", "stats"}

RECURSIVE SumRates(_, _)
SumRates(cs, i) ==
    IF i > Len(cs) THEN Zero ELSE plus(cs[i].rate, SumRates(cs, i + 1))

Paid(d) == plus(plus(d.cashback, d.treasury), SumAmounts(d.commissions, 1))

(***************************************************************************)
(* C2 as stated: for all valid trades, whatever the custom structures of  *)
(* the trader's ancestors, cashback + treasury + the sum of the emitted   *)
(* commission amounts is at most totalFee.                                 *)
(***************************************************************************)
C2_Original ==
    \A p \in Procs :
        InFlight(p) => isLessThanOrEqualTo(Paid(loc[p].dist), loc[p].dist.totalFee)

(***************************************************************************)
(* C2 amended: for all valid trades in which the rates resolved for the   *)
(* trader's ancestors sum to at most 0.35, cashback + treasury + the sum  *)
(* of the emitted commission amounts is at most totalFee.                  *)
(***************************************************************************)
C2_Amended ==
    \A p \in Procs :
        (/\ InFlight(p)
         /\ isLessThanOrEqualTo(SumRates(loc[p].dist.commissions, 1), D(35, 2)))
        => isLessThanOrEqualTo(Paid(loc[p].dist), loc[p].dist.totalFee)

\* three commissions were emitted, one of them at a custom rate below the
\* standard tier
C2_Witness ==
    \E p \in Procs :
        /\ InFlight(p)
        /\ Len(loc[p].dist.commissions) = 3
        /\ loc[p].dist.commissions[2].rate = D(1, 2)
        /\ isLessThanOrEqualTo(SumRates(loc[p].dist.commissions, 1), D(35, 2))

(***************************************************************************)
(* C3: a Trade whose commissionsDistributed flag is true has all its      *)
(* Commission rows persisted, every recipient's increment applied and the *)
(* trader's cashback increment applied, in every reachable state, crashes *)
(* included.                                                               *)
(***************************************************************************)
RowsOf(t) == SelectSeq(commissions, LAMBDA c : c.tradeId = t)

C3_FlagMeansAllWritten ==
    \A t \in 1..Len(trades) :
        trades[t].commissionsDistributed =>
            LET expected == calculateCommissionBreakdown(trades[t].userId,
                                                         trades[t].totalFee)
            IN  /\ Len(RowsOf(t)) = Len(expected)
                /\ applied[t].paid = Len(expected)
                /\ applied[t].cashback

(***************************************************************************)
(* C4: once all concurrent recordTrade operations have completed, each    *)
(* user's totalCommissionEarned is the sum of the amounts of the          *)
(* Commission rows of that user and totalCashbackEarned the sum of        *)
(* cashbackAmount over the user's own trades.                              *)
(***************************************************************************)
RECURSIVE SumCommissionsOf(_, _)
SumCommissionsOf(u, i) ==
    IF i > Len(commissions) THEN Zero
    ELSE plus(IF commissions[i].userId = u THEN commissions[i].amount ELSE Zero,
              SumCommissionsOf(u, i + 1))

RECURSIVE SumCashbackOf(_, _)
SumCashbackOf(u, i) ==
    IF i > Len(trades) THEN Zero
    ELSE plus(IF trades[i].userId = u THEN trades[i].cashbackAmount ELSE Zero,
              SumCashbackOf(u, i + 1))

AllTradesCompleted ==
    /\ \A p \in Procs : pc[p] = "idle"
    /\ \A t \in 1..Len(trades) : applied[t].returned

C4_NoLostIncrement ==
    AllTradesCompleted =>
        \A u \in UserIds :
            /\ users[u].totalCommissionEarned = SumCommissionsOf(u, 1)
            /\ users[u].totalCashbackEarned = SumCashbackOf(u, 1)

\* two trades completed and one user was paid a commission by each
C4_Witness ==
    /\ AllTradesCompleted
    /\ Len(trades) = 2
    /\ \E u \in UserIds :
          /\ \E c \in 1..Len(commissions) :
                commissions[c].userId = u /\ commissions[c].tradeId = 1
          /\ \E c \in 1..Len(commissions) :
                commissions[c].userId = u /\ commissions[c].tradeId = 2

(***************************************************************************)
(* C6: for a trader who is not fee-waived, totalFee = volume x            *)
(* feeRate(tier) with 0.01 for BASE and 0.005 for REDUCED, cashback =     *)
(* totalFee x 0.10 and treasury = totalFee x 0.55, each truncated to 18   *)
(* fractional digits.                                                      *)
(***************************************************************************)
C6_TruncatedSplit ==
    \A p \in Procs :
        InFlight(p) =>
            LET t == trades[loc[p].trade]
                trader == users[t.userId]
                waived == trader.customCommissionStructure.type # "NONE"
                          /\ trader.customCommissionStructure.feesWaived
                feeRate == IF trader.feeTier = "REDUCED" THEN D(5, 3) ELSE D(1, 2)
                totalFee == RoundDown(multipliedBy(BigNumberOf(t.volume), feeRate))
            IN  ~waived =>
                    /\ loc[p].dist.totalFee = totalFee
                    /\ loc[p].dist.cashback = RoundDown(multipliedBy(totalFee, D(10, 2)))
                    /\ loc[p].dist.treasury = RoundDown(multipliedBy(totalFee, D(55, 2)))

(***************************************************************************)
(* C7: for a trade with non-zero totalFee the commission list holds, in   *)
(* ascending level order, exactly one entry per ancestor of the chain     *)
(* whose rate (resolved with that ancestor's own custom structure) is     *)
(* above 0, with amount = totalFee x rate and the ancestor as beneficiary;*)
(* a zero-rate ancestor has no entry.  With standard rates a chain of     *)
(* depth d yields 30%, 3% and 2% at levels 1..d.                           *)
(***************************************************************************)
RateAt(trader, level) ==
    getCommissionRateForLevel(level,
        toCustomStructure(users[AncestorAt(trader, level)].customCommissionStructure))

ExpectedCommissions(trader, totalFee) ==
    LET levels == SelectSeq(<<1, 2, 3>>,
                    LAMBDA k : /\ AncestorAt(trader, k) # 0
                               /\ isGreaterThan(RateAt(trader, k), Zero))
    IN  [i \in 1..Len(levels) |->
            [level |-> levels[i],
             userId |-> AncestorAt(trader, levels[i]),
             amount |-> multipliedBy(totalFee, RateAt(trader, levels[i])),
             rate |-> RateAt(trader, levels[i])]]

StandardShare == <<D(30, 2), D(3, 2), D(2, 2)>>

C7_CommissionList ==
    \A p \in Procs :
        (InFlight(p) /\ ~isZero(loc[p].dist.totalFee)) =>
            LET d == loc[p].dist
            IN  /\ d.commissions = ExpectedCommissions(d.traderId, d.totalFee)
                /\ (\A k \in 1..NumAncestors(d.traderId) :
                        users[AncestorAt(d.traderId, k)].customCommissionStructure = NullCS)
                   => /\ Len(d.commissions) = NumAncestors(d.traderId)
                      /\ \A i \in 1..Len(d.commissions) :
                            /\ d.commissions[i].level = i
                            /\ d.commissions[i].amount =
                                  multipliedBy(d.totalFee, StandardShare[i])

\* the ancestor at level 2 has rate 0 and is left out, levels 1 and 3 are paid
C7_Witness ==
    \E p \in Procs :
        /\ InFlight(p)
        /\ Len(loc[p].dist.commissions) = 2
        /\ loc[p].dist.commissions[1].level = 1
        /\ loc[p].dist.commissions[2].level = 3

(***************************************************************************)
(* C9: recordTrade fails with NotFound when the trader does not exist and *)
(* with InvalidInput when the volume is not a positive finite decimal; in *)
(* every such failure no Trade row and no Commission row is created and   *)
(* no balance changes.                                                     *)
(***************************************************************************)
PositiveFinite(v) == v.k = "fin" /\ v.m > 0

C9_TradeFailures ==
    [][\A userId \in TraderIds, volume \in FeeVolumes :
          ProcessTrade("p1", userId, volume) =>
              /\ (isValidObjectId(userId) /\ userId \notin UserIds) =>
                    /\ result'["p1"] = "NotFound"
                    /\ UNCHANGED <<users, trades, commissions>>
              /\ (userId \in UserIds /\ ~PositiveFinite(BigNumberOf(volume))) =>
                    /\ result'["p1"] = "InvalidInput"
                    /\ UNCHANGED <<users, trades, commissions>>]_vars

(***************************************************************************)
(* C11: for every user in every reachable state, getAncestorChain returns *)
(* at most 3 entries whose levels are exactly 1, 2, .., n in that order,  *)
(* the entry at level k being the user's k-th ancestor; a user without a  *)
(* referrer yields the empty list.                                         *)
(***************************************************************************)
C11_AncestorChain ==
    \A u \in UserIds :
        LET chain == getReferralChain(u)
        IN  /\ Len(chain) <= 3
            /\ Len(chain) = Cardinality({k \in 1..3 : AncestorAt(u, k) # 0})
            /\ \A k \in 1..Len(chain) :
                  /\ chain[k].level = k
                  /\ chain[k].userId = AncestorAt(u, k)
                  /\ chain[k].referralCode = users[AncestorAt(u, k)].referralCode
            /\ users[u].referrerId = 0 => chain = <<>>

\* the directory holds a user whose chain has three entries and ends at a
\* root, and that root's own chain is empty
C11_Witness ==
    \E u \in UserIds :
        /\ Len(getReferralChain(u)) = 3
        /\ users[getReferralChain(u)[3].userId].referrerId = 0
        /\ getReferralChain(getReferralChain(u)[3].userId) = <<>>

(***************************************************************************)
(* C20: in generateCode and in registerUnder alike, a uniqueness          *)
(* violation reported by the store when the new user is inserted makes    *)
(* the operation draw a new code and retry within its 10 attempts; it is  *)
(* never surfaced to the caller as a failure.                              *)
(***************************************************************************)
C20_UniquenessViolationRetried ==
    [][\A p \in Procs :
          (/\ pc[p] \in {"gen_save", "reg_save"}
           /\ pc'[p] = "idle"
           /\ Len(users') = Len(users))
          => result'[p] \in {"Conflict", "Crashed"}]_vars

(***************************************************************************)
(* C12: for a trader whose customCommissionStructure.feesWaived is true,  *)
(* the distribution has totalFee 0, cashback 0, treasury 0 and an empty   *)
(* commission list for every volume, fee tier and ancestor chain, and the *)
(* trade creates no Commission row and leaves every user's running totals *)
(* unchanged.                                                              *)
(***************************************************************************)
WaivedTrader(u) ==
    /\ u \in UserIds
    /\ users[u].customCommissionStructure.type # "NONE"
    /\ users[u].customCommissionStructure.feesWaived

RunningTotals(us) ==
    [u \in 1..Len(us) |-> <<us[u].totalXpEarned, us[u].totalCommissionEarned,
                            us[u].totalCashbackEarned>>]

C12_FeesWaivedTrade ==
    [][\A p \in Procs :
          /\ (/\ pc[p] = "idle"
              /\ InFlight(p)'
              /\ WaivedTrader(loc'[p].dist.traderId)) =>
                    /\ Len(trades') = Len(trades) + 1
                    /\ trades'[Len(trades')].userId = loc'[p].dist.traderId
                    /\ loc'[p].dist.totalFee = Zero
                    /\ loc'[p].dist.cashback = Zero
                    /\ loc'[p].dist.treasury = Zero
                    /\ loc'[p].dist.commissions = <<>>
          /\ (InFlight(p) /\ WaivedTrader(loc[p].dist.traderId)) =>
                /\ commissions' = commissions
                /\ RunningTotals(users') = RunningTotals(users)]_vars

\* the trade of a fee-waived trader with three ancestors has run to its end
C12_Witness ==
    /\ Len(trades) = 1
    /\ WaivedTrader(trades[1].userId)
    /\ NumAncestors(trades[1].userId) = 3
    /\ trades[1].volume = "10000"
    /\ applied[1].returned
    /\ commissions = <<>>

(***************************************************************************)
(* The rate resolver as a pure function: getCommissionRateForLevel applied *)
(* to every level and structure of a bounded input set.                    *)
(***************************************************************************)
\* levels 0..MaxLevel are asked for (the ledger itself only asks 1..3)
MaxLevel == 4

RateStructures ==
    {toCustomStructure(NullCS)} \union
    [type : {"KOL_DIRECT", "KOL_CUSTOM", "WAIVED"},
     level1Rate : {NoRate, D(9, 1), Zero},
     level2Rate : {NoRate, D(1, 2)},
     level3Rate : {NoRate, D(40, 2)},
     feesWaived : {FALSE},
     commissionsWaived : BOOLEAN]

RateQuery(p, level, customStructure) ==
    /\ pc[p] = "idle"
    /\ loc' = [loc EXCEPT ![p] =
                [NoLoc EXCEPT !.out =
                    [op |-> "getCommissionRateForLevel",
                     level |-> level,
                     customStructure |-> customStructure,
                     value |-> getCommissionRateForLevel(level, customStructure)]]]
    /\ result' = [result EXCEPT ![p] = "OK"]
    /\ UNCHANGED <<users, trades, commissions, pc, applied>>

NextRate ==
    \E level \in 0..MaxLevel, customStructure \in RateStructures :
        RateQuery("p1", level, customStructure)

SpecRate == Init /\ [][NextRate]_vars

RateAnswers ==
    {loc[p].out : p \in {q \in Procs : loc[q].out.op = "getCommissionRateForLevel"}}

(***************************************************************************)
(* C13: rateForLevel returns 0 for every level whenever the structure's   *)
(* commissionsWaived flag is true, whatever its type and per-level rates.  *)
(***************************************************************************)
C13_WaivedCommissionsGiveZero ==
    \A a \in RateAnswers :
        (a.customStructure.type # "NONE" /\ a.customStructure.commissionsWaived)
            => a.value = Zero

\* a KOL_DIRECT structure with commissionsWaived was asked for level 1
C13_Witness ==
    \E a \in RateAnswers :
        /\ a.customStructure.type = "KOL_DIRECT"
        /\ a.customStructure.commissionsWaived
        /\ a.level = 1

(***************************************************************************)
(* C14: with commissionsWaived not set, rateForLevel is 0.50 at level 1   *)
(* and 0 elsewhere for KOL_DIRECT, 0 for WAIVED, the structure's own rate *)
(* for KOL_CUSTOM when one is present for the level and the standard tier *)
(* otherwise, and the standard tier without a structure; the standard     *)
(* tier is 0.30, 0.03, 0.02 at levels 1, 2, 3 and 0 at any other level.    *)
(***************************************************************************)
TierOf(level) ==
    IF level = 1 THEN D(30, 2)
    ELSE IF level = 2 THEN D(3, 2)
    ELSE IF level = 3 THEN D(2, 2)
    ELSE Zero

OwnRate(customStructure, level) ==
    IF level = 1 THEN customStructure.level1Rate
    ELSE IF level = 2 THEN customStructure.level2Rate
    ELSE IF level = 3 THEN customStructure.level3Rate
    ELSE NoRate

C14_RateTable ==
    \A a \in RateAnswers :
        LET cs == a.customStructure
        IN  ~(cs.type # "NONE" /\ cs.commissionsWaived) =>
                a.value =
                    CASE cs.type = "KOL_DIRECT" ->
                            (IF a.level = 1 THEN D(50, 2) ELSE Zero)
                      [] cs.type = "WAIVED" -> Zero
                      [] cs.type = "KOL_CUSTOM" ->
                            (IF OwnRate(cs, a.level) # NoRate
                             THEN OwnRate(cs, a.level) ELSE TierOf(a.level))
                      [] OTHER -> TierOf(a.level)

\* a KOL_CUSTOM structure without a level-2 rate was asked for level 2
C14_Witness ==
    \E a \in RateAnswers :
        /\ a.customStructure.type = "KOL_CUSTOM"
        /\ ~a.customStructure.commissionsWaived
        /\ a.customStructure.level2Rate = NoRate
        /\ a.customStructure.level1Rate # NoRate
        /\ a.level = 2
        /\ a.value = D(3, 2)

(***************************************************************************)
(* The read paths: getNetwork, getEarnings, getClaimableAmount and the    *)
(* claim endpoint.  A handler that has computed its answer holds it in    *)
(* loc[p].out with pc[p] = "replied" until the caller takes it (Deliver). *)
(* Amounts are compared as numbers: the strings the store and BigNumber   *)
(* print for one number ("1.0", "1") are one value here.                   *)
(***************************************************************************)
Reply(p, r, out) ==
    /\ pc' = [pc EXCEPT ![p] = "replied"]
    /\ loc' = [loc EXCEPT ![p] = [NoLoc EXCEPT !.out = out]]
    /\ result' = [result EXCEPT ![p] = r]

\* a caller issues a request when it holds no answer, or repeats the
\* request it has just been answered
CanCall(p, op, call) ==
    \/ pc[p] = "idle"
    \/ /\ pc[p] = "replied"
       /\ loc[p].out.op = op
       /\ loc[p].out.call = call

Deliver(p) ==
    /\ pc[p] = "replied"
    /\ pc' = [pc EXCEPT ![p] = "idle"]
    /\ loc' = [loc EXCEPT ![p] = NoLoc]
    /\ result' = [result EXCEPT ![p] = "none"]
    /\ UNCHANGED <<users, trades, commissions, applied>>

RECURSIVE SumValues(_, _)
SumValues(vals, i) ==
    IF i > Len(vals) THEN Zero ELSE plus(vals[i], SumValues(vals, i + 1))

(***************************************************************************)
(* getNetwork                                                              *)
(***************************************************************************)
MutMayDescend(currentLevel) == currentLevel < MAX_REFERRAL_DEPTH - 1

\* line 158: if (currentLevel < MAX_REFERRAL_DEPTH)
MayDescend(currentLevel) == currentLevel < MAX_REFERRAL_DEPTH

RECURSIVE buildNetworkTree(_, _)
RECURSIVE NodesOf(_, _, _)
\* lines 147-163: the loop over currentUser.directReferrals, from index i
NodesOf(refs, i, currentLevel) ==
    IF i > Len(refs) THEN <<>>
    ELSE LET referral == findById(refs[i])
         IN  IF referral = 0 THEN NodesOf(refs, i + 1, currentLevel)
             ELSE <<[userId |-> referral,
                     referralCode |-> users[referral].referralCode,
                     level |-> currentLevel,
                     hasDirectReferrals |-> MayDescend(currentLevel),
                     directReferrals |->
                        IF MayDescend(currentLevel)
                        THEN buildNetworkTree(referral, currentLevel + 1)
                        ELSE <<>>]>>
                  \o NodesOf(refs, i + 1, currentLevel)

\* lines 132-166
buildNetworkTree(currentUserId, currentLevel) ==
    IF currentLevel > MAX_REFERRAL_DEPTH THEN <<>>
    ELSE LET currentUser == findById(currentUserId)
         IN  IF currentUser = 0 THEN <<>>
             ELSE NodesOf(users[currentUser].directReferrals, 1, currentLevel)

\* lines 170-179
RECURSIVE flattenNetwork(_, _)
flattenNetwork(nodes, i) ==
    IF i > Len(nodes) THEN <<>>
    ELSE <<[userId |-> nodes[i].userId,
            referralCode |-> nodes[i].referralCode,
            level |-> nodes[i].level]>>
         \o (IF nodes[i].hasDirectReferrals
             THEN flattenNetwork(nodes[i].directReferrals, 1) ELSE <<>>)
         \o flattenNetwork(nodes, i + 1)

\* lines 124-187; the reads of the walk are taken in one step, that is
\* with no write of another request between them
GetNetwork(p, userId) ==
    /\ CanCall(p, "getNetwork", <<userId>>)
    /\ IF findById(userId) = 0
       THEN Reply(p, "NotFound", [op |-> "getNetwork", call |-> <<userId>>,
                                  userId |-> userId])
       ELSE LET flatNodes == flattenNetwork(buildNetworkTree(userId, 1), 1)
            IN  Reply(p, "OK", [op |-> "getNetwork", call |-> <<userId>>,
                                userId |-> userId,
                                data |-> flatNodes, total |-> Len(flatNodes)])
    /\ UNCHANGED <<users, trades, commissions, applied>>

(***************************************************************************)
(* getEarnings.  startDate / endDate 0 is "not given".                     *)
(***************************************************************************)
\* lines 200-205 and the $match stage
MutMatchFilter(row, userId, startDate, endDate) ==
    /\ row.userId = userId
    /\ startDate # 0 => row.createdAt >= startDate

MatchFilter(row, userId, startDate, endDate) ==
    /\ row.userId = userId
    /\ startDate # 0 => row.createdAt >= startDate
    /\ endDate # 0 => row.createdAt <= endDate

RowAmounts(rows) == [i \in 1..Len(rows) |-> rows[i].amount]

\* lines 211-224: the $group stage, one document per (sourceUserId, level)
GroupStage(rows) ==
    {LET mine == SelectSeq(rows, LAMBDA r : r.sourceUserId = key[1] /\ r.level = key[2])
     IN  [sourceUserId |-> key[1],
          level |-> key[2],
          totalEarned |-> SumValues(RowAmounts(mine), 1),
          claimed |-> SumValues(RowAmounts(SelectSeq(mine, LAMBDA r : r.isClaimed)), 1),
          unclaimed |-> SumValues(RowAmounts(SelectSeq(mine, LAMBDA r : ~r.isClaimed)), 1)]
     : key \in {<<rows[i].sourceUserId, rows[i].level>> : i \in 1..Len(rows)}}

\* line 226: $sort by level ascending, then totalEarned descending.  The
\* store leaves the order of documents with equal sort keys open, so every
\* order that respects the keys is a possible output.
SortStage(groups) ==
    {agg \in [1..Cardinality(groups) -> groups] :
        /\ \A i, j \in 1..Cardinality(groups) : i # j => agg[i] # agg[j]
        /\ \A i, j \in 1..Cardinality(groups) :
              i < j => \/ agg[i].level < agg[j].level
                       \/ /\ agg[i].level = agg[j].level
                          /\ isLessThanOrEqualTo(agg[j].totalEarned, agg[i].totalEarned)}

\* lines 235-249 and 255-256: the levels of the output, ascending
LevelsOf(agg) == SelectSeq(<<1, 2, 3>>, LAMBDA l : \E i \in 1..Len(agg) : agg[i].level = l)

\* lines 257-273: one entry per level
LevelEntry(agg, lvl) ==
    LET earnings == SelectSeq(agg, LAMBDA g : g.level = lvl)
    IN  [level |-> lvl,
         earnings |-> [i \in 1..Len(earnings) |->
                          [userId |-> earnings[i].sourceUserId,
                           level |-> lvl,
                           totalEarned |-> earnings[i].totalEarned,
                           claimed |-> earnings[i].claimed,
                           unclaimed |-> earnings[i].unclaimed]],
         levelTotal |-> SumValues([i \in 1..Len(earnings) |-> earnings[i].totalEarned], 1),
         levelClaimed |-> SumValues([i \in 1..Len(earnings) |-> earnings[i].claimed], 1),
         levelUnclaimed |-> SumValues([i \in 1..Len(earnings) |-> earnings[i].unclaimed], 1)]

\* lines 251-280
EarningsOf(agg) ==
    LET levels == LevelsOf(agg)
        byLevel == [i \in 1..Len(levels) |-> LevelEntry(agg, levels[i])]
    IN  [byLevel |-> byLevel,
         grandTotal |-> SumValues([i \in 1..Len(byLevel) |-> byLevel[i].levelTotal], 1),
         totalClaimed |-> SumValues([i \in 1..Len(byLevel) |-> byLevel[i].levelClaimed], 1),
         totalUnclaimed |-> SumValues([i \in 1..Len(byLevel) |-> byLevel[i].levelUnclaimed], 1)]

\* lines 189-281: one aggregate read, then the regrouping
GetEarnings(p, userId, startDate, endDate) ==
    /\ CanCall(p, "getEarnings", <<userId, startDate, endDate>>)
    /\ LET rows == SelectSeq(commissions,
                      LAMBDA r : MatchFilter(r, userId, startDate, endDate))
       IN  \E agg \in SortStage(GroupStage(rows)) :
              Reply(p, "OK", [op |-> "getEarnings",
                              call |-> <<userId, startDate, endDate>>,
                              userId |-> userId,
                              startDate |-> startDate, endDate |-> endDate,
                              value |-> EarningsOf(agg)])
    /\ UNCHANGED <<users, trades, commissions, applied>>

(***************************************************************************)
(* getClaimableAmount and the claim endpoint                               *)
(***************************************************************************)
MutUnclaimedMatch(row, userId) == row.userId = userId

\* line 286: $match { userId, isClaimed: false }
UnclaimedMatch(row, userId) == row.userId = userId /\ ~row.isClaimed

\* lines 284-294 and 300: the aggregate, '0' when no row matches
UnclaimedTotal(userId) ==
    SumValues(RowAmounts(SelectSeq(commissions,
                 LAMBDA r : UnclaimedMatch(r, userId))), 1)

\* lines 296-297
CashbackOf(userId) ==
    IF findById(userId) = 0 THEN Zero ELSE users[userId].totalCashbackEarned

\* lines 284-294: the aggregate read
GetClaimableAmount(p, userId) ==
    /\ CanCall(p, "getClaimableAmount", <<userId>>)
    /\ pc' = [pc EXCEPT ![p] = "claimable_user"]
    /\ loc' = [loc EXCEPT ![p] =
                [NoLoc EXCEPT !.out = [op |-> "getClaimableAmount",
                                        call |-> <<userId>>,
                                        userId |-> userId,
                                        commission |-> UnclaimedTotal(userId)]]]
    /\ result' = [result EXCEPT ![p] = "none"]
    /\ UNCHANGED <<users, trades, commissions, applied>>

\* lines 296-302: the read of the user, and the answer
GetClaimableUser(p) ==
    /\ pc[p] = "claimable_user"
    /\ loc[p].out.op = "getClaimableAmount"
    /\ Reply(p, "OK", [op |-> "getClaimableAmount",
                       call |-> loc[p].out.call,
                       userId |-> loc[p].out.userId,
                       value |-> [commission |-> loc[p].out.commission,
                                  cashback |-> CashbackOf(loc[p].out.userId)]])
    /\ UNCHANGED <<users, trades, commissions, applied>>

\* JavaScript parseFloat on the amounts of the model: a string with no
\* leading number gives NaN.  parseFloat rounds to the nearest double, which
\* keeps the order of the decimals compared here.
parseFloat(str) ==
    CASE str = "0" -> D(0, 0)
      [] str = "-100" -> D(-100, 0)
      [] str = "0.01" -> D(1, 2)
      [] str = "10000" -> D(10000, 0)
      [] str = "Infinity" -> Infinity
      [] OTHER -> NaN

\* controller lines 110-111: resolveUserId, then the aggregate read of
\* getClaimableAmount
Claim(p, userIdHeader, amount, claimType) ==
    /\ CanCall(p, "claim", <<userIdHeader, amount, claimType>>)
    /\ IF ~isValidObjectId(userIdHeader)
       THEN Reply(p, "InvalidInput", [op |-> "claim",
                                      call |-> <<userIdHeader, amount, claimType>>,
                                      userId |-> userIdHeader,
                                      amount |-> amount, claimType |-> claimType])
       ELSE /\ pc' = [pc EXCEPT ![p] = "claimable_user"]
            /\ loc' = [loc EXCEPT ![p] =
                        [NoLoc EXCEPT !.out = [op |-> "claim",
                                                call |-> <<userIdHeader, amount, claimType>>,
                                                userId |-> userIdHeader,
                                                amount |-> amount,
                                                claimType |-> claimType,
                                                commission |-> UnclaimedTotal(userIdHeader)]]]
            /\ result' = [result EXCEPT ![p] = "none"]
    /\ UNCHANGED <<users, trades, commissions, applied>>

\* controller line 119
ClaimRejected(requestedAmount, availableAmount) ==
    \/ isLessThanOrEqualTo(requestedAmount, Zero)
    \/ isGreaterThan(requestedAmount, availableAmount)

\* controller lines 111-126: the read of the user, the check and the answer
ClaimCheck(p) ==
    /\ pc[p] = "claimable_user"
    /\ loc[p].out.op = "claim"
    /\ LET claimable == [commission |-> loc[p].out.commission,
                         cashback |-> CashbackOf(loc[p].out.userId)]
           requestedAmount == parseFloat(loc[p].out.amount)
           availableAmount == IF loc[p].out.claimType = "COMMISSION"
                              THEN claimable.commission ELSE claimable.cashback
           answer == [op |-> "claim", call |-> loc[p].out.call,
                      userId |-> loc[p].out.userId,
                      amount |-> loc[p].out.amount,
                      claimType |-> loc[p].out.claimType,
                      available |-> availableAmount]
       IN  IF ClaimRejected(requestedAmount, availableAmount)
           THEN Reply(p, "InvalidInput", answer)
           ELSE Reply(p, "OK", answer)
    /\ UNCHANGED <<users, trades, commissions, applied>>

(***************************************************************************)
(* The settlement of claims is not part of this repository; all it does   *)
(* to the ledger is to mark Commission rows as claimed.                    *)
(***************************************************************************)
\* rows the settlement marks
MaxClaimed == 1

MarkClaimed(c) ==
    /\ c \in 1..Len(commissions)
    /\ ~commissions[c].isClaimed
    /\ Cardinality({i \in 1..Len(commissions) : commissions[i].isClaimed}) < MaxClaimed
    /\ commissions' = [commissions EXCEPT ![c].isClaimed = TRUE]
    /\ UNCHANGED <<users, trades, pc, loc, result, applied>>

(***************************************************************************)
(* Reads against a ledger that trades fill: one process trades, the other *)
(* reads.  An answer held by a caller is a value; the ledger is advanced  *)
(* only between answers.                                                   *)
(***************************************************************************)
\*        1
\*      /   \
\*     2     3
\*     |     | :   (the registration of 7 under 3 stopped before the
\*     4     6 7    $push: 3 has no child entry for 7)
\*     |
\*     5
ReadDirectory ==
    <<SeedUser(1, 0, <<2, 3>>, 0, "BASE", NullCS),
      SeedUser(2, 1, <<4>>, 1, "BASE", NullCS),
      SeedUser(3, 1, <<6>>, 1, "BASE", NullCS),
      SeedUser(4, 2, <<5>>, 2, "BASE", NullCS),
      SeedUser(5, 4, <<>>, 3, "BASE", NullCS),
      SeedUser(6, 3, <<>>, 2, "BASE", NullCS),
      SeedUser(7, 3, <<>>, 2, "BASE", NullCS)>>

InitRead ==
    /\ users = ReadDirectory
    /\ EmptyLedger
    /\ IdleProcs

\* trade requests <<userId, volume>>: two direct referrals of user 1 with
\* equal and with different volumes, and a trader at depth 3
ReadTrades == {<<2, "1000">>, <<3, "1000">>, <<3, "5000">>, <<5, "1000">>}
\* user 1 earns commissions at every level, user 5 only trades
ReaderIds == {1, 5, Len(users) + 1}
NetworkRoots == {1, 2, 3, Len(users) + 1}
StartDates == {0, 2}
EndDates == {0, 1}
ClaimAmounts == {"abc", "-100", "0.01", "10000"}
ClaimTypes == {"COMMISSION", "CASHBACK"}
\* the x-user-id header: a user, or a string that is no ObjectId
ClaimHeaders == {1, Len(users) + 1, -1}

NoAnswerHeld == \A p \in Procs : pc[p] # "replied"

NextRead ==
    \/ /\ NoAnswerHeld
       /\ \/ \E req \in ReadTrades : ProcessTrade("p1", req[1], req[2])
          \/ InsertCommissions("p1")
          \/ IncrementReferrer("p1")
          \/ MarkDistributed("p1")
          \/ UpdateUserStats("p1")
          \/ \E c \in 1..Len(commissions) :
                \* rows of other users are invisible to the reads issued here
                /\ commissions[c].userId \in ReaderIds
                /\ MarkClaimed(c)
    \/ \E userId \in NetworkRoots : GetNetwork("p2", userId)
    \/ \E userId \in ReaderIds, startDate \in StartDates, endDate \in EndDates :
          GetEarnings("p2", userId, startDate, endDate)
    \/ \E userId \in ReaderIds : GetClaimableAmount("p2", userId)
    \/ GetClaimableUser("p2")
    \/ \E userIdHeader \in ClaimHeaders, amount \in ClaimAmounts,
          claimType \in ClaimTypes : Claim("p2", userIdHeader, amount, claimType)
    \/ ClaimCheck("p2")
    \/ Deliver("p2")

SpecRead == InitRead /\ [][NextRead]_vars

(***************************************************************************)
(* Answers held by callers, and sums over sets of Commission rows.         *)
(***************************************************************************)
Answered(p, op) == pc[p] = "replied" /\ loc[p].out.op = op

RECURSIVE SumOfRows(_)
SumOfRows(I) ==
    IF I = {} THEN Zero
    ELSE LET i == CHOOSE x \in I : TRUE
         IN  plus(commissions[i].amount, SumOfRows(I \ {i}))

RowsFor(userId) == {i \in 1..Len(commissions) : commissions[i].userId = userId}

(***************************************************************************)
(* C15: a claim request whose amount is non-positive, unparsable, or      *)
(* greater than the user's claimable balance of the requested type is     *)
(* rejected with InvalidInput, and it creates no record and changes no    *)
(* user, trade or commission.                                              *)
(***************************************************************************)
ClaimableBalance(userId, claimType) ==
    IF claimType = "COMMISSION"
    THEN SumOfRows({i \in RowsFor(userId) : ~commissions[i].isClaimed})
    ELSE IF userId \in UserIds THEN users[userId].totalCashbackEarned ELSE Zero

BadClaimAmount(amount, balance) ==
    LET v == BigNumberOf(amount)
    IN  \/ v.k = "nan"
        \/ v.k = "fin" /\ v.m <= 0
        \/ v.k = "inf" /\ v.m < 0
        \/ isGreaterThan(v, balance)

C15_BadClaimRejected ==
    [][\A p \in Procs :
          (/\ pc[p] = "claimable_user"
           /\ loc[p].out.op = "claim"
           /\ pc'[p] = "replied") =>
              /\ UNCHANGED <<users, trades, commissions>>
              /\ BadClaimAmount(loc[p].out.amount,
                     ClaimableBalance(loc[p].out.userId, loc[p].out.claimType))
                 => result'[p] = "InvalidInput"]_vars

(***************************************************************************)
(* C16: earningsFor(user, window) groups the Commission rows of the user  *)
(* (created within the window, bounds included, when one is given) by     *)
(* (source user, level); levels are in ascending order and the groups of  *)
(* a level in descending order of their total; each level's               *)
(* total/claimed/unclaimed is the sum over its groups and the grand       *)
(* totals the sums over the levels, so grandTotal is the sum of the       *)
(* amounts of all matching rows and totalClaimed + totalUnclaimed =       *)
(* grandTotal.                                                             *)
(***************************************************************************)
InWindow(i, startDate, endDate) ==
    /\ startDate = 0 \/ commissions[i].createdAt >= startDate
    /\ endDate = 0 \/ commissions[i].createdAt <= endDate

EarningsAsClaimed(a) ==
    LET v == a.value
        rows == {i \in RowsFor(a.userId) : InWindow(i, a.startDate, a.endDate)}
        keys == {<<commissions[i].sourceUserId, commissions[i].level>> : i \in rows}
        of(k) == {i \in rows : /\ commissions[i].sourceUserId = k[1]
                               /\ commissions[i].level = k[2]}
        entries == {<<l, g>> : l \in 1..Len(v.byLevel), g \in 1..3}
        present == {x \in entries : x[2] <= Len(v.byLevel[x[1]].earnings)}
        entry(x) == v.byLevel[x[1]].earnings[x[2]]
    IN  /\ {<<entry(x).userId, entry(x).level>> : x \in present} = keys
        /\ Cardinality(present) = Cardinality(keys)
        /\ \A l \in 1..Len(v.byLevel) :
              /\ Len(v.byLevel[l].earnings) \in 1..3
              /\ l > 1 => v.byLevel[l - 1].level < v.byLevel[l].level
              /\ \A g \in 1..Len(v.byLevel[l].earnings) :
                    LET e == v.byLevel[l].earnings[g]
                        mine == of(<<e.userId, e.level>>)
                    IN  /\ e.level = v.byLevel[l].level
                        /\ e.totalEarned = SumOfRows(mine)
                        /\ e.claimed = SumOfRows({i \in mine : commissions[i].isClaimed})
                        /\ e.unclaimed = SumOfRows({i \in mine : ~commissions[i].isClaimed})
                        /\ g > 1 => isLessThanOrEqualTo(e.totalEarned,
                                        v.byLevel[l].earnings[g - 1].totalEarned)
              /\ v.byLevel[l].levelTotal =
                    SumOfRows({i \in rows : commissions[i].level = v.byLevel[l].level})
              /\ v.byLevel[l].levelClaimed =
                    SumOfRows({i \in rows : /\ commissions[i].level = v.byLevel[l].level
                                            /\ commissions[i].isClaimed})
              /\ v.byLevel[l].levelUnclaimed =
                    SumOfRows({i \in rows : /\ commissions[i].level = v.byLevel[l].level
                                            /\ ~commissions[i].isClaimed})
        /\ v.grandTotal = SumOfRows(rows)
        /\ v.totalClaimed = SumOfRows({i \in rows : commissions[i].isClaimed})
        /\ plus(v.totalClaimed, v.totalUnclaimed) = v.grandTotal

C16_EarningsGrouping ==
    \A p \in Procs : Answered(p, "getEarnings") => EarningsAsClaimed(loc[p].out)

\* two sources at level 1 with different totals, one of the rows claimed
C16_Witness ==
    \E p \in Procs :
        /\ Answered(p, "getEarnings")
        /\ loc[p].out.userId = 1
        /\ loc[p].out.startDate = 0 /\ loc[p].out.endDate = 0
        /\ Len(loc[p].out.value.byLevel) = 1
        /\ Len(loc[p].out.value.byLevel[1].earnings) = 2
        /\ loc[p].out.value.byLevel[1].earnings[1].totalEarned
              # loc[p].out.value.byLevel[1].earnings[2].totalEarned
        /\ loc[p].out.value.totalClaimed # Zero

(***************************************************************************)
(* C17: claimableAmount(user) returns commission = the sum of amount over *)
(* exactly the Commission rows of that user with isClaimed = false (0     *)
(* when there are none) and cashback = the user's current                 *)
(* totalCashbackEarned (0 when the user does not exist).                   *)
(***************************************************************************)
C17_ClaimableAmount ==
    [][\A p \in Procs :
          /\ (/\ pc[p] # "claimable_user"
              /\ pc'[p] = "claimable_user"
              /\ loc'[p].out.op = "getClaimableAmount") =>
                 loc'[p].out.commission =
                    SumOfRows({i \in RowsFor(loc'[p].out.userId) :
                                  ~commissions[i].isClaimed})
          /\ (/\ pc[p] = "claimable_user"
              /\ loc[p].out.op = "getClaimableAmount"
              /\ pc'[p] = "replied") =>
                 /\ loc'[p].out.value.commission = loc[p].out.commission
                 /\ loc'[p].out.value.cashback =
                       (IF loc[p].out.userId \in UserIds
                        THEN users[loc[p].out.userId].totalCashbackEarned
                        ELSE Zero)]_vars

\* user 1 holds a claimed and an unclaimed row and was told the unclaimed one
C17_Witness ==
    \E p \in Procs :
        /\ Answered(p, "getClaimableAmount")
        /\ loc[p].out.userId = 1
        /\ \E i, j \in RowsFor(1) : commissions[i].isClaimed /\ ~commissions[j].isClaimed
        /\ loc[p].out.value.commission # Zero

(***************************************************************************)
(* C18: getDescendantTree(root) fails with NotFound when root does not    *)
(* exist; otherwise its flattened result lists exactly the users          *)
(* reachable from root through child lists within 3 levels, in pre-order  *)
(* (every parent before its children, children in child-list order), each *)
(* with level equal to its distance from root, and total equals the       *)
(* number of listed nodes.                                                 *)
(***************************************************************************)
ChildrenOf(u) ==
    {users[u].directReferrals[i] : i \in 1..Len(users[u].directReferrals)} \cap UserIds

RECURSIVE AtDistance(_, _)
AtDistance(root, d) ==
    IF d = 0 THEN {root}
    ELSE UNION {ChildrenOf(u) : u \in AtDistance(root, d - 1)}

PositionIn(seq, x) == CHOOSE i \in 1..Len(seq) : seq[i] = x

\* the entry that is the parent of entry i: the nearest one before it that
\* is one level up (0: the root itself)
ParentEntry(data, i) ==
    IF data[i].level = 1 THEN 0
    ELSE LET above == {j \in 1..(i - 1) : data[j].level = data[i].level - 1}
         IN  IF above = {} THEN -1
             ELSE CHOOSE j \in above : \A k \in above : k <= j

NetworkAsClaimed(root, a) ==
    LET data == a.data
        owner(i) == IF ParentEntry(data, i) = 0 THEN root
                    ELSE data[ParentEntry(data, i)].userId
    IN  /\ a.total = Len(data)
        /\ {<<data[i].userId, data[i].level>> : i \in 1..Len(data)} =
              {<<v, d>> \in UserIds \X (1..3) : v \in AtDistance(root, d)}
        /\ Len(data) =
              Cardinality({<<v, d>> \in UserIds \X (1..3) : v \in AtDistance(root, d)})
        /\ \A i \in 1..Len(data) :
              /\ data[i].referralCode = users[data[i].userId].referralCode
              /\ data[i].level <= (IF i = 1 THEN 1 ELSE data[i - 1].level + 1)
              /\ ParentEntry(data, i) # -1
              /\ data[i].userId \in ChildrenOf(owner(i))
        /\ \A i, j \in 1..Len(data) :
              (i < j /\ ParentEntry(data, i) = ParentEntry(data, j)
                     /\ data[i].level = data[j].level) =>
                  PositionIn(users[owner(i)].directReferrals, data[i].userId)
                    < PositionIn(users[owner(j)].directReferrals, data[j].userId)

C18_DescendantTree ==
    \A p \in Procs :
        Answered(p, "getNetwork") =>
            IF loc[p].out.userId \notin UserIds
            THEN result[p] = "NotFound"
            ELSE /\ result[p] = "OK"
                 /\ NetworkAsClaimed(loc[p].out.userId, loc[p].out)

\* the network of user 1: three levels down one branch, then the next branch
C18_Witness ==
    \E p \in Procs :
        /\ Answered(p, "getNetwork")
        /\ loc[p].out.userId = 1
        /\ result[p] = "OK"
        /\ loc[p].out.total = 5
        /\ loc[p].out.data[3].level = 3
        /\ loc[p].out.data[4].level = 1

(***************************************************************************)
(* C19: earningsFor and claimableAmount are pure reads: calling           *)
(* earningsFor twice with identical arguments and no intervening write    *)
(* returns identical results, and neither call changes any user, trade or *)
(* commission.                                                             *)
(***************************************************************************)
C19_PureReads ==
    [][\A p \in Procs :
          /\ (/\ Answered(p, "getEarnings")
              /\ Answered(p, "getEarnings")'
              /\ loc'[p].out.call = loc[p].out.call) =>
                 loc'[p].out.value = loc[p].out.value
          /\ (/\ loc'[p].out # loc[p].out
              /\ loc'[p].out.op \in {"getEarnings", "getClaimableAmount"}) =>
                 UNCHANGED <<users, trades, commissions>>]_vars

(***************************************************************************)
(* C22: every Commission row's tradeVolume and tradeFee equal the volume  *)
(* and the totalFee of the Trade row it references, for traders of either *)
(* fee tier.                                                               *)
(***************************************************************************)
C22_RowSnapshot ==
    \A i \in 1..Len(commissions) :
        LET trade == trades[commissions[i].tradeId]
        IN  /\ commissions[i].tradeVolume = BigNumberOf(trade.volume)
            /\ commissions[i].tradeFee = trade.totalFee

(***************************************************************************)
(* C23: in every reachable state, between the steps of in-flight trades   *)
(* included, every user's totalXpEarned equals totalCommissionEarned +    *)
(* totalCashbackEarned.                                                    *)
(***************************************************************************)
C23_XpMirrorsEarnings ==
    \A u \in UserIds :
        users[u].totalXpEarned =
            plus(users[u].totalCommissionEarned, users[u].totalCashbackEarned)

\* a user holds both a commission and a cashback while another trade is
\* between two of its increments
C23_Witness ==
    /\ \E u \in UserIds : /\ ~isZero(users[u].totalCommissionEarned)
                          /\ ~isZero(users[u].totalCashbackEarned)
    /\ \E p \in Procs : pc[p] = "inc" /\ loc[p].idx = 2

(***************************************************************************)
(* C25: every Trade row is created with commissionsDistributed = false    *)
(* and no distributedAt; the flag changes at most once, from false to     *)
(* true, distributedAt is set in the write that sets the flag, and no     *)
(* operation resets the flag.                                              *)
(***************************************************************************)
C25_FlagOnce ==
    [][/\ Len(trades') >= Len(trades)
       /\ \A t \in 1..Len(trades') :
             IF t > Len(trades)
             THEN /\ ~trades'[t].commissionsDistributed
                  /\ ~trades'[t].distributedAt
             ELSE /\ trades[t].commissionsDistributed =>
                        /\ trades'[t].commissionsDistributed
                        /\ trades'[t].distributedAt = trades[t].distributedAt
                  /\ (/\ ~trades[t].commissionsDistributed
                      /\ trades'[t].commissionsDistributed) =>
                        /\ ~trades[t].distributedAt
                        /\ trades'[t].distributedAt
                  /\ ~trades'[t].commissionsDistributed =>
                        trades'[t].distributedAt = trades[t].distributedAt]_vars

\* one trade is marked and stamped, a later one is not yet
C25_Witness ==
    /\ Len(trades) = 2
    /\ trades[1].commissionsDistributed /\ trades[1].distributedAt
    /\ ~trades[2].commissionsDistributed /\ ~trades[2].distributedAt
    /\ applied[1].returned

(***************************************************************************)
(* C29: for every Commission row in every reachable state, the            *)
(* beneficiary is the ancestor at distance level from the row's source    *)
(* trader in the referral tree; hence a trader never receives a           *)
(* commission on their own trade and the beneficiaries of one trade are   *)
(* pairwise distinct.                                                      *)
(***************************************************************************)
C29_BeneficiaryIsAncestor ==
    /\ \A i \in 1..Len(commissions) :
          /\ commissions[i].level \in 1..MAX_REFERRAL_DEPTH
          /\ commissions[i].userId # 0
          /\ commissions[i].userId =
                AncestorAt(commissions[i].sourceUserId, commissions[i].level)
          /\ commissions[i].userId # commissions[i].sourceUserId
          /\ commissions[i].sourceUserId = trades[commissions[i].tradeId].userId
    /\ \A i, j \in 1..Len(commissions) :
          (i # j /\ commissions[i].tradeId = commissions[j].tradeId) =>
              commissions[i].userId # commissions[j].userId

\* the level-2 ancestor earns nothing: the rows of the trade are those of
\* the ancestors at distance 1 and 3
C29_Witness ==
    /\ Len(commissions) = 2
    /\ commissions[1].level = 1 /\ commissions[1].userId = 3
    /\ commissions[2].level = 3 /\ commissions[2].userId = 1
    /\ commissions[1].sourceUserId = 4

(***************************************************************************)
(* C30: in every reachable state, mid-trade and after a crash at any step *)
(* of recordTrade included, each user's totalCommissionEarned is at most  *)
(* the sum of the amounts of the Commission rows naming that user as      *)
(* beneficiary, with equality for every user whenever no recordTrade is   *)
(* in flight or abandoned.                                                 *)
(***************************************************************************)
C30_BalanceWithinRows ==
    /\ \A u \in UserIds :
          isLessThanOrEqualTo(users[u].totalCommissionEarned, SumCommissionsOf(u, 1))
    /\ AllTradesCompleted =>
          \A u \in UserIds :
              users[u].totalCommissionEarned = SumCommissionsOf(u, 1)

\* a trade was abandoned after its rows were inserted and before the last
\* increment: a beneficiary holds less than its rows
C30_Witness ==
    /\ \A p \in Procs : pc[p] = "idle"
    /\ \E t \in 1..Len(trades) :
          /\ applied[t].rows
          /\ ~applied[t].returned
          /\ applied[t].paid = 1
    /\ \E u \in UserIds :
          /\ users[u].totalCommissionEarned # SumCommissionsOf(u, 1)
          /\ ~isZero(users[u].totalCommissionEarned)

(***************************************************************************)
(* C24: in every reachable state there is at most one Commission row per  *)
(* (trade, beneficiary) pair; every row is created with isClaimed =       *)
(* false, and after creation no operation changes any of its fields other *)
(* than the claim fields, which never go from claimed back to unclaimed.  *)
(***************************************************************************)
OnePerPair(rows) ==
    \A i, j \in 1..Len(rows) :
        (rows[i].tradeId = rows[j].tradeId /\ rows[i].userId = rows[j].userId)
            => i = j

C24_CommissionRows ==
    [][/\ Len(commissions') >= Len(commissions)
       /\ OnePerPair(commissions')
       /\ \A i \in 1..Len(commissions') :
             IF i > Len(commissions)
             THEN ~commissions'[i].isClaimed
             ELSE /\ [commissions'[i] EXCEPT !.isClaimed = commissions[i].isClaimed]
                        = commissions[i]
                  /\ commissions[i].isClaimed => commissions'[i].isClaimed]_vars

\* a trade paid three beneficiaries, one row is claimed, and the rows of a
\* second trade were inserted after that
C24_Witness ==
    /\ \E i, j, k \in 1..Len(commissions) :
          /\ i < j /\ j < k
          /\ commissions[i].tradeId = commissions[k].tradeId
          /\ \E c \in {i, j, k} : commissions[c].isClaimed
    /\ \E i, j \in 1..Len(commissions) :
          /\ commissions[i].tradeId < commissions[j].tradeId
          /\ commissions[i].userId = commissions[j].userId
          /\ commissions[i].isClaimed

(***************************************************************************)
(* C26: after any interleaving of concurrent registerUnder operations     *)
(* that all complete (several under the same referrer included), each     *)
(* newly created user's id appears exactly once in its referrer's child   *)
(* list and in no other user's child list, and no previously appended     *)
(* child entry is lost.                                                    *)
(***************************************************************************)
Occurrences(seq, x) == Cardinality({i \in 1..Len(seq) : seq[i] = x})

IsPrefix(s, t) == Len(s) <= Len(t) /\ \A i \in 1..Len(s) : s[i] = t[i]

C26_ChildListAppends ==
    [][/\ \A u \in UserIds :
             IsPrefix(users[u].directReferrals, users'[u].directReferrals)
       /\ \A u, v \in 1..Len(users') :
             Occurrences(users'[u].directReferrals, v)
                <= (IF users'[v].referrerId = u THEN 1 ELSE 0)
       /\ \A p \in Procs :
             (pc[p] = "reg_push" /\ pc'[p] = "idle" /\ result'[p] = "OK") =>
                 /\ users'[loc[p].newId].referrerId = loc[p].referrer
                 /\ Occurrences(users'[loc[p].referrer].directReferrals,
                                loc[p].newId) = 1]_vars

\* two registrations under the same referrer overlapped (the user created
\* first was appended last) and both completed
C26_Witness ==
    /\ \A p \in Procs : pc[p] = "idle" /\ result[p] = "OK"
    /\ \E u \in UserIds :
          /\ Len(users[u].directReferrals) = 2
          /\ users[u].directReferrals[1] > users[u].directReferrals[2]

(***************************************************************************)
(* All operations together: one process registers users and trades, the   *)
(* other reads.  The directory starts with a root and one referral.  The  *)
(* failure followed here is the one of a registration between the insert  *)
(* of the user and the $push on its referrer; failures of trades are      *)
(* followed in SpecTrade.                                                  *)
(***************************************************************************)
InitOps ==
    /\ users = Chain(2, <<"BASE", "BASE">>, <<NullCS, NullCS>>)
    /\ EmptyLedger
    /\ IdleProcs

\* number of users the directory may hold in this specification
MaxUsers == 3

OpsTraders == {2, 3}
OpsVolumes == {"1000"}
OpsRoots == {1, 2, Len(users) + 1}
OpsReaders == {1}

Writes(p) ==
    \/ /\ Len(users) < MaxUsers
       /\ \E cands \in CandidateRuns : GenerateReferralCode(p, cands)
    \/ GenerateSave(p)
    \/ /\ Len(users) < MaxUsers
       /\ \E c \in Codes : RegisterWithReferral(p, c)
    \/ \E cands \in CandidateRuns : RegisterSave(p, cands)
    \/ RegisterPush(p)
    \/ \E userId \in OpsTraders, volume \in OpsVolumes : ProcessTrade(p, userId, volume)
    \/ InsertCommissions(p)
    \/ IncrementReferrer(p)
    \/ MarkDistributed(p)
    \/ UpdateUserStats(p)

Reads(p) ==
    \/ \E userId \in OpsRoots : GetNetwork(p, userId)
    \/ \E userId \in OpsReaders : GetEarnings(p, userId, 0, 0)
    \/ \E userId \in OpsReaders : GetClaimableAmount(p, userId)
    \/ GetClaimableUser(p)
    \/ \E userIdHeader \in OpsReaders, amount \in {"0.01", "10000"} :
          Claim(p, userIdHeader, amount, "COMMISSION")
    \/ ClaimCheck(p)
    \/ Deliver(p)

CrashBeforePush(p) == pc[p] = "reg_push" /\ Crash(p)

NextOps ==
    \/ NoAnswerHeld /\ Writes("p1")
    \/ NoAnswerHeld /\ CrashBeforePush("p1")
    \/ Reads("p2")

SpecOps == InitOps /\ [][NextOps]_vars

(***************************************************************************)
(* C21: in every reachable state, a state where registerUnder has created *)
(* the child but has not yet appended it (or, after a crash, never        *)
(* appends it) to the parent's child list included, getDescendantTree(r)  *)
(* contains every user whose referrerId chain reaches r within 3 steps.   *)
(***************************************************************************)
ReachesWithin(v, r, n) == \E d \in 1..n : AncestorAt(v, d) = r

C21_MembershipByParentPointer ==
    \A p \in Procs :
        (Answered(p, "getNetwork") /\ result[p] = "OK") =>
            \A v \in UserIds :
                ReachesWithin(v, loc[p].out.userId, MAX_REFERRAL_DEPTH) =>
                    \E i \in 1..Len(loc[p].out.data) : loc[p].out.data[i].userId = v

(***************************************************************************)
(* C27: along every behaviour each user's totalXpEarned,                  *)
(* totalCommissionEarned and totalCashbackEarned never decrease, and they *)
(* change only through recordTrade's atomic increments: generateCode,     *)
(* registerUnder, the network and earnings reads and claim leave them     *)
(* unchanged.                                                              *)
(***************************************************************************)
Totals(user) ==
    <<user.totalXpEarned, user.totalCommissionEarned, user.totalCashbackEarned>>

Moved(p) == pc'[p] # pc[p] \/ loc'[p] # loc[p] \/ result'[p] # result[p]

C27_TotalsOnlyGrowByTrades ==
    [][/\ Len(users') >= Len(users)
       /\ \A u \in UserIds :
             /\ \A k \in 1..3 :
                   isLessThanOrEqualTo(Totals(users[u])[k], Totals(users'[u])[k])
             /\ Totals(users'[u]) # Totals(users[u]) =>
                   \E p \in Procs : pc[p] \in {"inc", "stats"} /\ Moved(p)
       /\ \A p \in Procs :
             (Moved(p) /\ pc[p] \notin {"inc", "stats"}) =>
                 \A u \in UserIds : Totals(users'[u]) = Totals(users[u])]_vars

\* a user holds a commission and a cashback, a user was registered since,
\* and a claim was answered
C27_Witness ==
    /\ Len(users) = 3
    /\ ~isZero(users[1].totalCommissionEarned)
    /\ ~isZero(users[2].totalCashbackEarned)
    /\ ~isZero(users[3].totalCashbackEarned)
    /\ \E p \in Procs : Answered(p, "claim")

(***************************************************************************)
(* Progress.  No request stops half-way; a request that awaits the store  *)
(* is resumed when the store answers, so each continuation of each        *)
(* request is weakly fair.  The directory starts as a chain of three      *)
(* users; new requests start at any time, from either process.            *)
(***************************************************************************)
InitLive ==
    /\ users = Chain(3, <<"BASE", "BASE", "BASE">>, <<NullCS, NullCS, NullCS>>)
    /\ EmptyLedger
    /\ IdleProcs

LiveTraders == {3, 4}

Start(p) ==
    \/ \E cands \in CandidateRuns : GenerateReferralCode(p, cands)
    \/ \E c \in Codes : RegisterWithReferral(p, c)
    \/ \E userId \in LiveTraders, volume \in OpsVolumes : ProcessTrade(p, userId, volume)
    \/ \E userId \in {1, Len(users) + 1} : GetNetwork(p, userId)
    \/ Deliver(p)

Continue(p) ==
    \/ GenerateSave(p)
    \/ \E cands \in CandidateRuns : RegisterSave(p, cands)
    \/ RegisterPush(p)
    \/ InsertCommissions(p)
    \/ IncrementReferrer(p)
    \/ MarkDistributed(p)
    \/ UpdateUserStats(p)

NextLive == \E p \in Procs : Start(p) \/ Continue(p)

SpecLive ==
    InitLive /\ [][NextLive]_vars /\ \A p \in Procs : WF_vars(Continue(p))

(***************************************************************************)
(* The user lookups (findById) of the two parent-pointer walks, and the   *)
(* deepest level at which buildNetworkTree is entered.                     *)
(***************************************************************************)
\* calculateReferralDepth, lines 382-392: n lookups were made so far
RECURSIVE DepthWalkLookups(_, _)
DepthWalkLookups(currentUser, n) ==
    IF currentUser # 0 /\ users[currentUser].referrerId # 0
    THEN DepthWalkLookups(findById(users[currentUser].referrerId), n + 1)
    ELSE n

\* getReferralChain, lines 102-122
RECURSIVE ChainWalkLookups(_, _, _)
ChainWalkLookups(currentUser, level, n) ==
    IF currentUser # 0 /\ users[currentUser].referrerId # 0
       /\ WithinChainDepth(level)
    THEN LET referrer == findById(users[currentUser].referrerId)
         IN  IF referrer = 0 THEN n + 1
             ELSE ChainWalkLookups(referrer, NextLevel(level), n + 1)
    ELSE n

Max(S) == CHOOSE x \in S : \A y \in S : y <= x

\* buildNetworkTree, lines 132-166
RECURSIVE TreeLevels(_, _)
TreeLevels(currentUserId, currentLevel) ==
    IF currentLevel > MAX_REFERRAL_DEPTH \/ findById(currentUserId) = 0
    THEN currentLevel
    ELSE IF MayDescend(currentLevel)
         THEN Max({currentLevel} \union
                  {TreeLevels(c, currentLevel + 1) : c \in ChildrenOf(currentUserId)})
         ELSE currentLevel

Terminated(p) == pc[p] \in {"idle", "replied"}

(***************************************************************************)
(* C28: under fair scheduling and absent storage failures or crashes,     *)
(* every started operation terminates: generateCode and registerUnder     *)
(* within their 10-attempt bound, the depth walk of registerUnder and     *)
(* getAncestorChain within MAX_REFERRAL_DEPTH + 1 user lookups in every   *)
(* reachable state, getDescendantTree within 3 levels of recursion, and   *)
(* every recordTrade that passes validation eventually leaves its Trade   *)
(* with commissionsDistributed = true.                                     *)
(***************************************************************************)
BoundedWalks ==
    /\ \A cands \in CandidateRuns : GenerateLoop(cands, 1, 0).attempts <= maxAttempts
    /\ \A u \in UserIds :
          /\ DepthWalkLookups(findById(u), 1) <= MAX_REFERRAL_DEPTH + 1
          /\ ChainWalkLookups(findById(u), 1, 1) <= MAX_REFERRAL_DEPTH + 1
          /\ TreeLevels(u, 1) <= 3

C28_Termination ==
    /\ []BoundedWalks
    /\ \A p \in Procs : ~Terminated(p) ~> Terminated(p)
    /\ \A t \in 1..MaxTrades :
          (Len(trades) >= t) ~>
              (Len(trades) >= t /\ trades[t].commissionsDistributed)

\* a user at depth 3 is registered (its walks take MAX_REFERRAL_DEPTH + 1
\* lookups, the tree of the root has 3 levels), and a trade of that user
\* has been marked distributed while another request is in flight
C28_Witness ==
    /\ \E u \in UserIds :
          /\ DepthWalkLookups(findById(u), 1) = MAX_REFERRAL_DEPTH + 1
          /\ ChainWalkLookups(findById(u), 1, 1) = MAX_REFERRAL_DEPTH + 1
          /\ \E t \in 1..Len(trades) :
                trades[t].userId = u /\ trades[t].commissionsDistributed
    /\ TreeLevels(1, 1) = 3
    /\ \E p \in Procs : ~Terminated(p)

====
